---------------------------- MODULE Spec2Model ----------------------------
(***************************************************************************)
(* A model of the session registry (Provider) and the session Manager of   *)
(* acidvertigo/sessions.                                                   *)
(*                                                                         *)
(* Strings are sequences of one-character strings, so that escaping and    *)
(* unescaping of identifiers are computed and not assumed.  Instants are   *)
(* whole seconds since the epoch (what time.Time.Unix() returns) and       *)
(* durations are int64 nanoseconds, as time.Duration is.                   *)
(***************************************************************************)
EXTENDS Integers, Sequences, FiniteSets, TLC

VARIABLES
    now,                 \* the wall clock, in seconds
    stores,              \* the heap of store objects ever made by NewStore, by handle
    sessions,            \* Provider.sessions: sid -> list element (its store's handle)
    list,                \* Provider.list: handles, front first
    cookieLifeDuration,  \* Provider.cookieLifeDuration
    gcDuration,          \* Manager.gcDuration
    minted,              \* how many identifiers generateSessionID has produced
    issued,              \* the cookie values Start has set on a response
    lastOp,              \* calls made one at a time: the call that returned last
    pc,                  \* concurrent calls: where each goroutine is
    loc,                 \* concurrent calls: each goroutine's call, locals and result
    p_mu,                \* Provider.mu: its holder, or NoThread
    m_mu,                \* Manager.mu: its holder, or NoThread
    gone,                \* the identifiers some Destroy was called for or GC removed
    timers,              \* the pending timers of Manager.GC
    timerAt,             \* when the last timer was set
    providers,           \* the package's table of registered providers, by name
    manager,             \* what the last call of New made
    redisUp,             \* whether the remote backend answers
    lastReg              \* the provider of the last Register call of each name

concVars == <<pc, loc, p_mu, m_mu, gone, timers, timerAt>>

ctorVars == <<providers, manager, redisUp, lastReg>>

vars == <<now, stores, sessions, list, cookieLifeDuration, gcDuration,
          minted, issued, lastOp, pc, loc, p_mu, m_mu, gone, timers, timerAt,
          providers, manager, redisUp, lastReg>>

-----------------------------------------------------------------------------
(* Bounds of the model *)

MaxTime == 2

MaxStores == 2

MaxMint == 1

NProcs == 2

(* Program constants *)

Second == 1000000000

RandomLen == 32

-----------------------------------------------------------------------------
(* Strings *)

Letters == <<"g", "h", "j", "k">>

NoString == <<>>

\* base64: the number of '=' that pad the encoding of n bytes
Base64PadLen(n) == (3 - (n % 3)) % 3

RECURSIVE Repeat(_, _)
Repeat(c, n) == IF n = 0 THEN <<>> ELSE <<c>> \o Repeat(c, n - 1)

\* The k-th identifier of the generator: the body of the encoding, which is
\* drawn at random, is one fresh letter; the padding is what base64 appends.
generateSessionID(k) == <<Letters[k]>> \o Repeat("=", Base64PadLen(RandomLen))

IsHex(c) == c \in {"0", "2", "3", "5", "D"}

\* the byte two hex digits stand for, as a character
Unhex(a, b) ==
    CASE a = "3" /\ b = "D" -> "="
      [] a = "2" /\ b = "5" -> "%"
      [] OTHER -> "?"

EscapeChar(c) ==
    CASE c = "=" -> <<"%", "3", "D">>
      [] c = "%" -> <<"%", "2", "5">>
      [] c = " " -> <<"+">>
      [] OTHER -> <<c>>

RECURSIVE QueryEscape(_)
QueryEscape(s) ==
    IF s = <<>> THEN <<>> ELSE EscapeChar(Head(s)) \o QueryEscape(Tail(s))

\* url.QueryUnescape's first pass: every '%' is followed by two hex digits
RECURSIVE WellFormed(_)
WellFormed(s) ==
    IF s = <<>> THEN TRUE
    ELSE IF Head(s) = "%"
         THEN /\ Len(s) >= 3
              /\ IsHex(s[2])
              /\ IsHex(s[3])
              /\ WellFormed(SubSeq(s, 4, Len(s)))
         ELSE WellFormed(Tail(s))

RECURSIVE Decode(_)
Decode(s) ==
    IF s = <<>> THEN <<>>
    ELSE IF Head(s) = "%" THEN <<Unhex(s[2], s[3])>> \o Decode(SubSeq(s, 4, Len(s)))
    ELSE IF Head(s) = "+" THEN <<" ">> \o Decode(Tail(s))
    ELSE <<Head(s)>> \o Decode(Tail(s))

\* an unescape that returns its argument as it came
NoUnescape(s) == [val |-> s, ok |-> TRUE]

\* url.QueryUnescape: the decoded string, or "" and an error
QueryUnescape(s) ==
    IF WellFormed(s) THEN [val |-> Decode(s), ok |-> TRUE]
    ELSE [val |-> NoString, ok |-> FALSE]

-----------------------------------------------------------------------------
(* container/list and the map, on handles *)

Range(f) == {f[i] : i \in DOMAIN f}

PushBack(l, h) == Append(l, h)

Remove(l, h) == SelectSeq(l, LAMBDA x : x # h)

\* MoveToFront does nothing for an element that is no longer in the list
MoveToFront(l, h) == IF h \in Range(l) THEN <<h>> \o Remove(l, h) ELSE l

\* Back returns nil (0) on an empty list
Back(l) == IF l = <<>> THEN 0 ELSE l[Len(l)]

MapPut(m, k, v) == [x \in (DOMAIN m) \cup {k} |-> IF x = k THEN v ELSE m[x]]

MapDelete(m, k) == [x \in (DOMAIN m) \ {k} |-> m[x]]

EmptyMap == [x \in {} |-> 0]

-----------------------------------------------------------------------------
(* The store: package store is not among the sources; this is the store of *)
(* the specification's data model (id, entries, lastAccessedAt), created   *)
(* with lastAccessedAt = now and no entries.                               *)

NewStore(sid, life, t) == [id |-> sid, last |-> t, val |-> 0, destroyCalls |-> 0]

SetLastAccessedTime(S, h, t) == [S EXCEPT ![h].last = t]

StoreDestroy(S, h) == [S EXCEPT ![h].destroyCalls = @ + 1]

StoreSet(S, h, v) == [S EXCEPT ![h].val = v]

-----------------------------------------------------------------------------
(* The Provider, as functions of its state P = [sessions, list, stores,    *)
(* life] (life is cookieLifeDuration) and of the clock t.                  *)

TheProvider ==
    [sessions |-> sessions, list |-> list, stores |-> stores,
     life |-> cookieLifeDuration]

\* an Init that pushes the new store on the list and leaves the map alone
ProviderInitNoMap(P, sid, t) ==
    LET h == Len(P.stores) + 1
    IN  [P EXCEPT !.stores = Append(@, NewStore(sid, P.life, t)),
                  !.list = PushBack(@, h)]

\* Provider.Init: a new store, pushed at the back of the list, and the map
\* entry of sid set to it (whatever it was).
ProviderInit(P, sid, t) ==
    LET h == Len(P.stores) + 1
    IN  [P EXCEPT !.stores = Append(@, NewStore(sid, P.life, t)),
                  !.list = PushBack(@, h),
                  !.sessions = MapPut(@, sid, h)]

\* Provider.Read: the store of sid, or the one Init makes
ProviderRead(P, sid, t) ==
    IF sid \in DOMAIN P.sessions
    THEN [P |-> P, ret |-> P.sessions[sid], err |-> "nil", created |-> FALSE]
    ELSE LET Q == ProviderInit(P, sid, t)
         IN  [P |-> Q, ret |-> Len(Q.stores), err |-> "nil", created |-> TRUE]

\* a Destroy that, for an identifier it does not find, drops the list's tail
ProviderDestroyTail(P, sid) ==
    IF sid \in DOMAIN P.sessions
    THEN LET h == P.sessions[sid]
         IN  [P EXCEPT !.stores = StoreDestroy(@, h),
                       !.sessions = MapDelete(@, sid),
                       !.list = Remove(@, h)]
    ELSE [P EXCEPT !.list = Remove(@, Back(P.list))]

\* Provider.Destroy
ProviderDestroy(P, sid) ==
    IF sid \in DOMAIN P.sessions
    THEN LET h == P.sessions[sid]
         IN  [P EXCEPT !.stores = StoreDestroy(@, h),
                       !.sessions = MapDelete(@, sid),
                       !.list = Remove(@, h)]
    ELSE P

\* Provider.Update
ProviderUpdate(P, sid, t) ==
    IF sid \in DOMAIN P.sessions
    THEN LET h == P.sessions[sid]
         IN  [P EXCEPT !.stores = SetLastAccessedTime(@, h, t),
                       !.list = MoveToFront(@, h)]
    ELSE P

\* The test of Provider.GC: LastAccessedTime().Unix() + duration.Nanoseconds()
\* < time.Now().Unix(); last and t are seconds, d is nanoseconds.
GCExpired(last, d, t) == last + d < t

RECURSIVE GCLoop(_, _, _, _)
GCLoop(P, d, t, removed) ==
    LET elem == Back(P.list)
    IN  IF elem = 0 THEN [P |-> P, removed |-> removed]
        ELSE IF GCExpired(P.stores[elem].last, d, t)
             THEN GCLoop([P EXCEPT !.list = Remove(@, elem),
                                   !.sessions = MapDelete(@, P.stores[elem].id)],
                         d, t, removed \cup {elem})
             ELSE [P |-> P, removed |-> removed]

\* Provider.GC
ProviderGC(P, d, t) == GCLoop([P EXCEPT !.life = d], d, t, {})

-----------------------------------------------------------------------------
(* The Manager, as functions of the provider's state *)

\* Manager.Start: k identifiers were minted before the call
ManagerStart(P, cookieValue, k, t) ==
    IF cookieValue = NoString
    THEN LET sid == generateSessionID(k + 1)
             Q == ProviderInit(P, sid, t)
         IN  [P |-> Q, ret |-> Len(Q.stores), created |-> TRUE, sid |-> sid,
              setCookie |-> QueryEscape(sid), minted |-> k + 1]
    ELSE LET sid == QueryUnescape(cookieValue).val
             r == ProviderRead(P, sid, t)
         IN  [P |-> r.P, ret |-> r.ret, created |-> r.created, sid |-> sid,
              setCookie |-> NoString, minted |-> k]

\* Manager.Destroy: the provider's Destroy is given the cookie value as it came
ManagerDestroy(P, cookieValue) ==
    IF cookieValue = NoString THEN P ELSE ProviderDestroy(P, cookieValue)

\* Manager.GC, without its timer
ManagerGC(P, d, t) == ProviderGC(P, d, t)

-----------------------------------------------------------------------------
(* Inputs *)

Durations == {1, 2 * Second}

DirectSIDs == {<<"s", "1">>, <<"s", "2">>}

MintedSIDs(k) == {generateSessionID(i) : i \in 1..k}

\* every identifier a store can be bound to
SIDs == {NoString} \cup DirectSIDs \cup MintedSIDs(MaxMint)

\* the identifiers a direct caller of the Provider passes
CallSIDs == DirectSIDs

\* the identifier concurrent callers of the Provider contend for
SharedSIDs == {<<"s", "1">>}

Malformed == {<<"%">>, <<"%", "g">>}

\* the identifiers of the issued cookie values, as a client sends them unescaped
Unescaped == {QueryUnescape(c).val : c \in issued}

\* the cookie values a request carries: none, malformed, an issued one, or an
\* issued identifier sent unescaped
Cookies == {NoString} \cup Malformed \cup issued \cup Unescaped

\* the cookie values of the requests served concurrently
RequestCookies == {NoString, <<"%">>} \cup issued \cup Unescaped

-----------------------------------------------------------------------------
(* The table of providers and the construction of a Manager *)

ProviderNames == {"memory", "redis"}

\* a nil IProvider
NilProvider == [id |-> 0, name |-> ""]

\* NewProvider(name): the i-th provider object made
NewProvider(i, name) == [id |-> i, name |-> name]

\* Provider.Name
Name(p) == p.name

\* the providers the packages of the backends make and register
ProviderObjs == {NewProvider(i, n) : i \in 1..2, n \in ProviderNames}

\* a variant of the package in which an overwrite is fatal
StopOnError == FALSE

continueOnError == TRUE

\* Register: the table after the call, and how the call ended
RegisterTable(tbl, provider) ==
    IF provider = NilProvider
    THEN [tbl |-> tbl, err |-> "panic"]
    ELSE IF Name(provider) \in DOMAIN tbl /\ ~continueOnError
         THEN [tbl |-> tbl, err |-> "fatal"]
         ELSE [tbl |-> MapPut(tbl, Name(provider), provider), err |-> "nil"]

\* a time.Duration given to New: whole minutes and nanoseconds, since 60
\* minutes do not fit the integers of the model as nanoseconds
Nanoseconds(d) == [minutes |-> 0, ns |-> d]

Minutes(n) == [minutes |-> n, ns |-> 0]

NilManager ==
    [provider |-> NilProvider, cookieName |-> "", gcDuration |-> Nanoseconds(0)]

\* a newManager that also refuses an empty cookie name
newManagerStrict(tbl, providerName, cookieName, d) ==
    IF providerName \notin DOMAIN tbl \/ cookieName = ""
    THEN [manager |-> NilManager, err |-> providerName]
    ELSE [manager |-> [provider |-> tbl[providerName],
                       cookieName |-> cookieName,
                       gcDuration |-> IF d < 1 THEN Minutes(60) ELSE Nanoseconds(d)],
          err |-> "nil"]

\* newManager: the Manager and the error
newManager(tbl, providerName, cookieName, d) ==
    IF providerName \notin DOMAIN tbl
    THEN [manager |-> NilManager, err |-> providerName]
    ELSE [manager |-> [provider |-> tbl[providerName],
                       cookieName |-> IF cookieName = "" THEN "AppCookieName"
                                      ELSE cookieName,
                       gcDuration |-> IF d < 1 THEN Minutes(60) ELSE Nanoseconds(d)],
          err |-> "nil"]

\* no Manager made yet; requested and up are the backend name the last New
\* was given and whether the remote backend answered then
NoManager ==
    [m |-> NilManager, err |-> "nil", gc |-> FALSE, requested |-> "", up |-> TRUE]

CtorIdle ==
    /\ providers = EmptyMap
    /\ manager = NoManager
    /\ redisUp = TRUE
    /\ lastReg = EmptyMap

-----------------------------------------------------------------------------
(* Calls made one at a time: each action is a whole call *)

NoOp ==
    [op |-> "none", sid |-> NoString, cookie |-> NoString, ret |-> 0,
     created |-> FALSE, err |-> "none", setCookie |-> NoString,
     removed |-> {}, d |-> 0]

SetProvider(P) ==
    /\ sessions' = P.sessions
    /\ list' = P.list
    /\ stores' = P.stores
    /\ cookieLifeDuration' = P.life

NoThread == -1

\* goroutine 0 is the one New starts for Manager.GC; the others serve requests
GCThread == 0

Procs == 1..NProcs

Threads == {GCThread} \cup Procs

Fresh ==
    [op |-> "none", sid |-> NoString, cookie |-> NoString, elem |-> 0,
     ret |-> 0, created |-> FALSE, d |-> 0]

ConcIdle ==
    /\ pc = [t \in Threads |-> "idle"]
    /\ loc = [t \in Threads |-> Fresh]
    /\ p_mu = NoThread
    /\ m_mu = NoThread
    /\ gone = {}
    /\ timers = 0
    /\ timerAt = 0

SeqInit ==
    /\ now = 0
    /\ stores = <<>>
    /\ sessions = EmptyMap
    /\ list = <<>>
    /\ cookieLifeDuration = 0
    /\ gcDuration = 0
    /\ CtorIdle
    /\ minted = 0
    /\ issued = {}
    /\ lastOp = NoOp
    /\ ConcIdle

Tick ==
    /\ now < MaxTime
    /\ now' = now + 1
    /\ lastOp' = [NoOp EXCEPT !.op = "Tick"]
    /\ UNCHANGED <<stores, sessions, list, cookieLifeDuration, gcDuration, ctorVars,
                   minted, issued, concVars>>

CallInit(sid) ==
    /\ Len(stores) < MaxStores
    /\ SetProvider(ProviderInit(TheProvider, sid, now))
    /\ lastOp' = [NoOp EXCEPT !.op = "Init", !.sid = sid,
                              !.ret = Len(stores) + 1, !.created = TRUE]
    /\ UNCHANGED <<now, gcDuration, ctorVars, minted, issued, concVars>>

CallRead(sid) ==
    LET r == ProviderRead(TheProvider, sid, now)
    IN  /\ Len(r.P.stores) <= MaxStores
        /\ SetProvider(r.P)
        /\ lastOp' = [NoOp EXCEPT !.op = "Read", !.sid = sid, !.ret = r.ret,
                                  !.err = r.err, !.created = r.created]
        /\ UNCHANGED <<now, gcDuration, ctorVars, minted, issued, concVars>>

CallDestroy(sid) ==
    /\ SetProvider(ProviderDestroy(TheProvider, sid))
    /\ lastOp' = [NoOp EXCEPT !.op = "Destroy", !.sid = sid, !.err = "nil",
                              !.removed = IF sid \in DOMAIN sessions
                                          THEN {sessions[sid]} ELSE {}]
    /\ UNCHANGED <<now, gcDuration, ctorVars, minted, issued, concVars>>

CallUpdate(sid) ==
    /\ SetProvider(ProviderUpdate(TheProvider, sid, now))
    /\ lastOp' = [NoOp EXCEPT !.op = "Update", !.sid = sid]
    /\ UNCHANGED <<now, gcDuration, ctorVars, minted, issued, concVars>>

CallGC(d) ==
    LET r == ProviderGC(TheProvider, d, now)
    IN  /\ SetProvider(r.P)
        /\ lastOp' = [NoOp EXCEPT !.op = "GC", !.d = d, !.removed = r.removed]
        /\ UNCHANGED <<now, gcDuration, ctorVars, minted, issued, concVars>>

\* a write through a registered store
Set(h) ==
    /\ h \in Range(list)
    /\ stores[h].val = 0
    /\ stores' = StoreSet(stores, h, 1)
    /\ lastOp' = [NoOp EXCEPT !.op = "Set", !.ret = h]
    /\ UNCHANGED <<now, sessions, list, cookieLifeDuration, gcDuration, ctorVars,
                   minted, issued, concVars>>

Start(cookieValue) ==
    LET r == ManagerStart(TheProvider, cookieValue, minted, now)
    IN  /\ Len(r.P.stores) <= MaxStores
        /\ r.minted <= MaxMint
        /\ SetProvider(r.P)
        /\ minted' = r.minted
        /\ issued' = IF r.setCookie = NoString THEN issued
                     ELSE issued \cup {r.setCookie}
        /\ lastOp' = [NoOp EXCEPT !.op = "Start", !.sid = r.sid,
                                  !.cookie = cookieValue, !.ret = r.ret,
                                  !.created = r.created,
                                  !.setCookie = r.setCookie]
        /\ UNCHANGED <<now, gcDuration, ctorVars, concVars>>

Destroy(cookieValue) ==
    /\ SetProvider(ManagerDestroy(TheProvider, cookieValue))
    /\ lastOp' = [NoOp EXCEPT !.op = "ManagerDestroy", !.cookie = cookieValue]
    /\ UNCHANGED <<now, gcDuration, ctorVars, minted, issued, concVars>>

GC ==
    LET r == ManagerGC(TheProvider, gcDuration, now)
    IN  /\ SetProvider(r.P)
        /\ lastOp' = [NoOp EXCEPT !.op = "ManagerGC", !.d = gcDuration,
                                  !.removed = r.removed]
        /\ UNCHANGED <<now, gcDuration, ctorVars, minted, issued, concVars>>

SeqNext ==
    \/ Tick
    \/ \E sid \in CallSIDs : CallInit(sid)
    \/ \E sid \in CallSIDs : CallRead(sid)
    \/ \E sid \in CallSIDs : CallDestroy(sid)
    \/ \E sid \in CallSIDs : CallUpdate(sid)
    \/ \E d \in Durations : CallGC(d)
    \/ \E h \in DOMAIN stores : Set(h)

Spec == SeqInit /\ [][SeqNext]_vars

\* The Manager's calls, one at a time
ManagerInit ==
    /\ now = 0
    /\ stores = <<>>
    /\ sessions = EmptyMap
    /\ list = <<>>
    /\ cookieLifeDuration = 0
    /\ gcDuration \in Durations
    /\ CtorIdle
    /\ minted = 0
    /\ issued = {}
    /\ lastOp = NoOp
    /\ ConcIdle

ManagerNext ==
    \/ Tick
    \/ \E h \in DOMAIN stores : Set(h)
    \/ \E c \in Cookies : Start(c)
    \/ \E c \in Cookies : Destroy(c)
    \/ GC

SpecManager == ManagerInit /\ [][ManagerNext]_vars

-----------------------------------------------------------------------------
(* Concurrent calls: each action is one step of one goroutine.  A step is  *)
(* one access to the map or the list; taking a mutex is joined to the      *)
(* first step it guards and releasing it to the last.                      *)

Idle(t) == pc[t] \in {"idle", "done"}

\* where a goroutine goes on when the Provider's method returns
After(t) ==
    CASE loc[t].op = "Start" -> "start_unlock"
      [] loc[t].op = "ManagerDestroy" -> "mdestroy_unlock"
      [] loc[t].op = "ManagerGC" -> "mgc_timer"
      [] OTHER -> "done"

Goto(t, label) == pc' = [pc EXCEPT ![t] = label]

providerVars == <<stores, sessions, list, cookieLifeDuration>>

managerVars == <<gcDuration, ctorVars, minted, issued, m_mu, timers, timerAt>>

\* the wall clock, while calls are in progress
Clock ==
    /\ now < MaxTime
    /\ \A t \in Threads : pc[t] # "fatal"
    /\ now' = now + 1
    /\ UNCHANGED <<providerVars, managerVars, lastOp, pc, loc, p_mu, gone>>

\* a goroutine calls Provider.Read(sid)
BeginRead(t, sid) ==
    /\ Idle(t)
    /\ Goto(t, "read")
    /\ loc' = [loc EXCEPT ![t] = [Fresh EXCEPT !.op = "Read", !.sid = sid]]
    /\ UNCHANGED <<now, providerVars, managerVars, lastOp, p_mu, gone>>

\* a goroutine calls Provider.Destroy(sid)
BeginDestroy(t, sid) ==
    /\ Idle(t)
    /\ Goto(t, "destroy")
    /\ loc' = [loc EXCEPT ![t] = [Fresh EXCEPT !.op = "Destroy", !.sid = sid]]
    /\ gone' = gone \cup {sid}
    /\ UNCHANGED <<now, providerVars, managerVars, lastOp, p_mu>>

\* a goroutine calls Provider.Update(sid)
BeginUpdate(t, sid) ==
    /\ Idle(t)
    /\ Goto(t, "update")
    /\ loc' = [loc EXCEPT ![t] = [Fresh EXCEPT !.op = "Update", !.sid = sid]]
    /\ UNCHANGED <<now, providerVars, managerVars, lastOp, p_mu, gone>>

\* a goroutine calls Provider.GC(d)
BeginGC(t, d) ==
    /\ Idle(t)
    /\ Goto(t, "gc")
    /\ loc' = [loc EXCEPT ![t] = [Fresh EXCEPT !.op = "GC", !.d = d]]
    /\ UNCHANGED <<now, providerVars, managerVars, lastOp, p_mu, gone>>

\* Read: the lookup, made without the mutex
ReadLookup(t) ==
    /\ pc[t] = "read"
    /\ IF loc[t].sid \in DOMAIN sessions
       THEN /\ loc' = [loc EXCEPT ![t].ret = sessions[loc[t].sid]]
            /\ Goto(t, After(t))
       ELSE /\ loc' = loc
            /\ Goto(t, "init_push")
    /\ UNCHANGED <<now, providerVars, managerVars, lastOp, p_mu, gone>>

\* Init: Lock, NewStore, PushBack
InitPush(t) ==
    /\ pc[t] = "init_push"
    /\ p_mu = NoThread
    /\ Len(stores) < MaxStores
    /\ p_mu' = t
    /\ stores' = Append(stores, NewStore(loc[t].sid, cookieLifeDuration, now))
    /\ list' = PushBack(list, Len(stores) + 1)
    /\ loc' = [loc EXCEPT ![t].elem = Len(stores) + 1, ![t].created = TRUE]
    /\ Goto(t, "init_map")
    /\ UNCHANGED <<now, sessions, cookieLifeDuration, managerVars, lastOp, gone>>

\* Init: the map entry, Unlock, return
InitMap(t) ==
    /\ pc[t] = "init_map"
    /\ sessions' = MapPut(sessions, loc[t].sid, loc[t].elem)
    /\ p_mu' = NoThread
    /\ loc' = [loc EXCEPT ![t].ret = loc[t].elem, ![t].elem = 0]
    /\ Goto(t, After(t))
    /\ UNCHANGED <<now, stores, list, cookieLifeDuration, managerVars, lastOp, gone>>

\* Destroy: the lookup, made without the mutex
DestroyLookup(t) ==
    /\ pc[t] = "destroy"
    /\ IF loc[t].sid \in DOMAIN sessions
       THEN /\ loc' = [loc EXCEPT ![t].elem = sessions[loc[t].sid]]
            /\ Goto(t, "destroy_delete")
       ELSE /\ loc' = loc
            /\ Goto(t, After(t))
    /\ UNCHANGED <<now, providerVars, managerVars, lastOp, p_mu, gone>>

\* Destroy: the store's Destroy and the delete from the map
DestroyDelete(t) ==
    /\ pc[t] = "destroy_delete"
    /\ stores' = StoreDestroy(stores, loc[t].elem)
    /\ sessions' = MapDelete(sessions, loc[t].sid)
    /\ Goto(t, "destroy_remove")
    /\ UNCHANGED <<now, list, cookieLifeDuration, managerVars, lastOp, loc, p_mu, gone>>

\* Destroy: the removal from the list
DestroyRemove(t) ==
    /\ pc[t] = "destroy_remove"
    /\ list' = Remove(list, loc[t].elem)
    /\ loc' = [loc EXCEPT ![t].elem = 0]
    /\ Goto(t, After(t))
    /\ UNCHANGED <<now, stores, sessions, cookieLifeDuration, managerVars, lastOp,
                   p_mu, gone>>

\* Update: Lock and the lookup
UpdateLookup(t) ==
    /\ pc[t] = "update"
    /\ p_mu = NoThread
    /\ IF loc[t].sid \in DOMAIN sessions
       THEN /\ loc' = [loc EXCEPT ![t].elem = sessions[loc[t].sid]]
            /\ p_mu' = t
            /\ Goto(t, "update_move")
       ELSE /\ loc' = loc
            /\ p_mu' = NoThread
            /\ Goto(t, After(t))
    /\ UNCHANGED <<now, providerVars, managerVars, lastOp, gone>>

\* Update: SetLastAccessedTime, MoveToFront, Unlock
UpdateMove(t) ==
    /\ pc[t] = "update_move"
    /\ stores' = SetLastAccessedTime(stores, loc[t].elem, now)
    /\ list' = MoveToFront(list, loc[t].elem)
    /\ p_mu' = NoThread
    /\ loc' = [loc EXCEPT ![t].elem = 0]
    /\ Goto(t, After(t))
    /\ UNCHANGED <<now, sessions, cookieLifeDuration, managerVars, lastOp, gone>>

\* GC: Lock and the assignment of cookieLifeDuration
GCLock(t) ==
    /\ pc[t] = "gc"
    /\ p_mu = NoThread
    /\ p_mu' = t
    /\ cookieLifeDuration' = loc[t].d
    /\ Goto(t, "gc_back")
    /\ UNCHANGED <<now, stores, sessions, list, managerVars, lastOp, loc, gone>>

\* GC: the element at the back and the test; Unlock when the loop ends
GCBack(t) ==
    /\ pc[t] = "gc_back"
    /\ LET elem == Back(list)
       IN  IF elem # 0 /\ GCExpired(stores[elem].last, loc[t].d, now)
           THEN /\ loc' = [loc EXCEPT ![t].elem = elem]
                /\ p_mu' = p_mu
                /\ Goto(t, "gc_remove")
           ELSE /\ loc' = [loc EXCEPT ![t].elem = 0]
                /\ p_mu' = NoThread
                /\ Goto(t, After(t))
    /\ UNCHANGED <<now, providerVars, managerVars, lastOp, gone>>

\* GC: the removal from the list
GCRemove(t) ==
    /\ pc[t] = "gc_remove"
    /\ list' = Remove(list, loc[t].elem)
    /\ gone' = gone \cup {stores[loc[t].elem].id}
    /\ Goto(t, "gc_delete")
    /\ UNCHANGED <<now, stores, sessions, cookieLifeDuration, managerVars, lastOp, loc,
                   p_mu>>

\* GC: the delete from the map, of the removed store's identifier
GCDelete(t) ==
    /\ pc[t] = "gc_delete"
    /\ sessions' = MapDelete(sessions, stores[loc[t].elem].id)
    /\ Goto(t, "gc_back")
    /\ UNCHANGED <<now, stores, list, cookieLifeDuration, managerVars, lastOp, loc,
                   p_mu, gone>>

\* the steps that write the map, and those that read or write it
MapWritePCs == {"init_map", "destroy_delete", "gc_delete"}

MapAccessPCs == MapWritePCs \cup {"read", "destroy", "update"}

\* whether the next step of goroutine t can be taken
Ready(t) == pc[t] \in {"init_push", "update", "gc"} => p_mu = NoThread

\* Two goroutines about to access the map, one of them writing: the runtime
\* may let the accesses through in either order (the steps above) or stop
\* the process with "concurrent map read and map write" / "concurrent map
\* writes".
RaceFatal(t, u) ==
    /\ t # u
    /\ pc[t] \in MapWritePCs
    /\ pc[u] \in MapAccessPCs
    /\ Ready(u)
    /\ pc' = [x \in Threads |-> "fatal"]
    /\ UNCHANGED <<now, providerVars, managerVars, lastOp, loc, p_mu, gone>>

ProviderStep(t) ==
    \/ ReadLookup(t)
    \/ InitPush(t)
    \/ InitMap(t)
    \/ DestroyLookup(t)
    \/ DestroyDelete(t)
    \/ DestroyRemove(t)
    \/ UpdateLookup(t)
    \/ UpdateMove(t)
    \/ GCLock(t)
    \/ GCBack(t)
    \/ GCRemove(t)
    \/ GCDelete(t)

\* The four operations of the registry called concurrently on one Provider
ProvInit ==
    /\ now = 0
    /\ stores = <<>>
    /\ sessions = EmptyMap
    /\ list = <<>>
    /\ cookieLifeDuration = 0
    /\ gcDuration = 0
    /\ CtorIdle
    /\ minted = 0
    /\ issued = {}
    /\ lastOp = NoOp
    /\ ConcIdle

ProvNext ==
    \/ Clock
    \/ \E t \in Procs, sid \in SharedSIDs : BeginRead(t, sid)
    \/ \E t \in Procs, sid \in SharedSIDs : BeginDestroy(t, sid)
    \/ \E t \in Procs, sid \in SharedSIDs : BeginUpdate(t, sid)
    \/ \E t \in Procs, d \in Durations : BeginGC(t, d)
    \/ \E t \in Procs : ProviderStep(t)
    \/ \E t, u \in Procs : RaceFatal(t, u)

SpecProv == ProvInit /\ [][ProvNext]_vars

-----------------------------------------------------------------------------
(* Concurrent calls on the Manager: Start and Destroy from the goroutines  *)
(* that serve requests, GC from the goroutine New starts and from the      *)
(* timer each GC sets.                                                     *)

\* Start's m.mu.Lock() returns only when no goroutine holds the mutex
StartNoLock == TRUE

StartMayLock == m_mu = NoThread

\* a goroutine calls Manager.Start: Lock, which returns once the mutex is free
StartLock(t) ==
    /\ Idle(t)
    /\ StartMayLock
    /\ m_mu' = t
    /\ loc' = [loc EXCEPT ![t] = [Fresh EXCEPT !.op = "Start"]]
    /\ Goto(t, "start_cookie")
    /\ UNCHANGED <<now, providerVars, gcDuration, ctorVars, minted, issued, timers, timerAt,
                   lastOp, p_mu, gone>>

\* Start: the read of the request's cookie and the branch on it, up to the
\* call of Init or of Read
StartCookie(t, cookieValue) ==
    /\ pc[t] = "start_cookie"
    /\ IF cookieValue = NoString
       THEN /\ minted < MaxMint
            /\ minted' = minted + 1
            /\ loc' = [loc EXCEPT ![t].sid = generateSessionID(minted + 1)]
            /\ Goto(t, "init_push")
       ELSE /\ minted' = minted
            /\ loc' = [loc EXCEPT ![t].cookie = cookieValue,
                                  ![t].sid = QueryUnescape(cookieValue).val]
            /\ Goto(t, "read")
    /\ UNCHANGED <<now, providerVars, gcDuration, ctorVars, issued, m_mu, timers, timerAt,
                   lastOp, p_mu, gone>>

\* a Start that returns without Unlock
StartReturnLocked(t) ==
    /\ pc[t] = "start_unlock"
    /\ issued' = IF loc[t].cookie = NoString
                 THEN issued \cup {QueryEscape(loc[t].sid)} ELSE issued
    /\ loc' = [loc EXCEPT ![t] = Fresh]
    /\ Goto(t, "idle")
    /\ UNCHANGED <<now, providerVars, gcDuration, ctorVars, minted, m_mu, timers,
                   timerAt, lastOp, p_mu, gone>>

\* Start: the cookie of a new session, Unlock, return
StartUnlock(t) ==
    /\ pc[t] = "start_unlock"
    /\ issued' = IF loc[t].cookie = NoString
                 THEN issued \cup {QueryEscape(loc[t].sid)} ELSE issued
    /\ m_mu' = NoThread
    /\ loc' = [loc EXCEPT ![t] = Fresh]
    /\ Goto(t, "idle")
    /\ UNCHANGED <<now, providerVars, gcDuration, ctorVars, minted, timers, timerAt, lastOp,
                   p_mu, gone>>

\* a goroutine calls Manager.Destroy for a request without a cookie: there
\* is nothing to destroy and the call returns
DestroyNoCookie(t) ==
    /\ Idle(t)
    /\ loc' = [loc EXCEPT ![t] = Fresh]
    /\ Goto(t, "idle")
    /\ UNCHANGED <<now, providerVars, managerVars, lastOp, p_mu, gone>>

\* a goroutine calls Manager.Destroy for a request with a cookie: Lock, up to
\* the call of the Provider's Destroy with the cookie value
DestroyLock(t, cookieValue) ==
    /\ Idle(t)
    /\ cookieValue # NoString
    /\ m_mu = NoThread
    /\ m_mu' = t
    /\ loc' = [loc EXCEPT ![t] = [Fresh EXCEPT !.op = "ManagerDestroy",
                                               !.cookie = cookieValue,
                                               !.sid = cookieValue]]
    /\ gone' = gone \cup ({cookieValue} \cap SIDs)
    /\ Goto(t, "destroy")
    /\ UNCHANGED <<now, providerVars, gcDuration, ctorVars, minted, issued, timers, timerAt,
                   lastOp, p_mu>>

\* Destroy: the cleared cookie, Unlock, return
DestroyUnlock(t) ==
    /\ pc[t] = "mdestroy_unlock"
    /\ m_mu' = NoThread
    /\ loc' = [loc EXCEPT ![t] = Fresh]
    /\ Goto(t, "idle")
    /\ UNCHANGED <<now, providerVars, gcDuration, ctorVars, minted, issued, timers, timerAt,
                   lastOp, p_mu, gone>>

\* GC: Lock, up to the call of the Provider's GC
ManagerGCLock(t) ==
    /\ pc[t] = "mgc"
    /\ m_mu = NoThread
    /\ m_mu' = t
    /\ loc' = [loc EXCEPT ![t] = [Fresh EXCEPT !.op = "ManagerGC", !.d = gcDuration]]
    /\ Goto(t, "gc")
    /\ UNCHANGED <<now, providerVars, gcDuration, ctorVars, minted, issued, timers, timerAt,
                   lastOp, p_mu, gone>>

\* a GC that returns without setting a timer
ManagerGCNoTimer(t) ==
    /\ pc[t] = "mgc_timer"
    /\ m_mu' = NoThread
    /\ loc' = [loc EXCEPT ![t] = Fresh]
    /\ Goto(t, "idle")
    /\ UNCHANGED <<now, providerVars, gcDuration, ctorVars, minted, issued, timers, timerAt,
                   lastOp, p_mu, gone>>

\* a GC that sets two timers
ManagerGCTwoTimers(t) ==
    /\ pc[t] = "mgc_timer"
    /\ timers' = timers + 2
    /\ timerAt' = now
    /\ m_mu' = NoThread
    /\ loc' = [loc EXCEPT ![t] = Fresh]
    /\ Goto(t, "idle")
    /\ UNCHANGED <<now, providerVars, gcDuration, ctorVars, minted, issued, lastOp, p_mu, gone>>

\* GC: time.AfterFunc, Unlock, return
ManagerGCTimer(t) ==
    /\ pc[t] = "mgc_timer"
    /\ timers' = timers + 1
    /\ timerAt' = now
    /\ m_mu' = NoThread
    /\ loc' = [loc EXCEPT ![t] = Fresh]
    /\ Goto(t, "idle")
    /\ UNCHANGED <<now, providerVars, gcDuration, ctorVars, minted, issued, lastOp, p_mu, gone>>

\* the timer fires once gcDuration has passed and its function calls GC
TimerFire ==
    /\ timers > 0
    /\ pc[GCThread] = "idle"
    /\ now - timerAt >= gcDuration \div Second
    /\ timers' = timers - 1
    /\ timerAt' = 0
    /\ Goto(GCThread, "mgc")
    /\ lastOp' = [NoOp EXCEPT !.op = "TimerFire"]
    /\ UNCHANGED <<now, providerVars, gcDuration, ctorVars, minted, issued, m_mu, loc,
                   p_mu, gone>>

\* The wall clock between the Manager's calls.  Every access to the
\* Provider is made under m.mu here and no call writes an instant it read
\* before taking it, so a second that passes while m.mu is held has the
\* effect of one that passes just before or just after.
ManagerClock ==
    /\ m_mu = NoThread
    /\ Clock

\* New: the Manager, and go manager.GC()
NewInit ==
    /\ now = 0
    /\ stores = <<>>
    /\ sessions = EmptyMap
    /\ list = <<>>
    /\ cookieLifeDuration = 0
    /\ gcDuration \in Durations
    /\ CtorIdle
    /\ minted = 0
    /\ issued = {}
    /\ lastOp = NoOp
    /\ pc = [t \in Threads |-> IF t = GCThread THEN "mgc" ELSE "idle"]
    /\ loc = [t \in Threads |-> Fresh]
    /\ p_mu = NoThread
    /\ m_mu = NoThread
    /\ gone = {}
    /\ timers = 0
    /\ timerAt = 0

NewNext ==
    \/ ManagerClock
    \/ \E t \in Procs : StartLock(t)
    \/ \E t \in Procs, c \in RequestCookies : StartCookie(t, c)
    \/ \E t \in Procs : StartUnlock(t)
    \/ \E t \in Procs : DestroyNoCookie(t)
    \/ \E t \in Procs, c \in RequestCookies : DestroyLock(t, c)
    \/ \E t \in Procs : DestroyUnlock(t)
    \/ ManagerGCLock(GCThread)
    \/ ManagerGCTimer(GCThread)
    \/ TimerFire
    \/ \E t \in Threads : ReadLookup(t)
    \/ \E t \in Threads : InitPush(t)
    \/ \E t \in Threads : InitMap(t)
    \/ \E t \in Threads : DestroyLookup(t)
    \/ \E t \in Threads : DestroyDelete(t)
    \/ \E t \in Threads : DestroyRemove(t)
    \/ \E t \in Threads : GCLock(t)
    \/ \E t \in Threads : GCBack(t)
    \/ \E t \in Threads : GCRemove(t)
    \/ \E t \in Threads : GCDelete(t)

SpecNew == NewInit /\ [][NewNext]_vars

-----------------------------------------------------------------------------
(* Properties of the calls made one at a time *)

Registered == Range(list)

\* whether secs whole seconds are at least d nanoseconds
IdleAtLeast(secs, d) == secs >= (d \div Second) + (IF d % Second = 0 THEN 0 ELSE 1)

IsGC == lastOp.op \in {"GC", "ManagerGC"}

\* C1: after GC(d) returns, every store still registered has been idle for
\* less than d, and every store the call removed had been idle for at least
\* d, idle time and d taken in the same unit.
C1_SweepByIdleTime ==
    IsGC =>
        /\ \A h \in Registered : ~IdleAtLeast(now - stores[h].last, lastOp.d)
        /\ \A h \in lastOp.removed : IdleAtLeast(now - stores[h].last, lastOp.d)

\* C2: the map and the list are in bijection: every map entry points to one
\* list element, which holds the store of that id, and every list element is
\* the target of exactly one map entry.
C2_Bijection ==
    /\ \A sid \in DOMAIN sessions :
          /\ Cardinality({i \in DOMAIN list : list[i] = sessions[sid]}) = 1
          /\ stores[sessions[sid]].id = sid
    /\ \A i \in DOMAIN list :
          Cardinality({sid \in DOMAIN sessions : sessions[sid] = list[i]}) = 1

\* C3: the store at the back of a non-empty list is a least recently used
\* one: no registered store was accessed before it.
C3_TailIsLeastRecent ==
    list # <<>> =>
        \A h \in Registered : stores[Back(list)].last <= stores[h].last

\* C4: when Manager.Start returns, the store it returns was last accessed at
\* the time of the call and is at the front of the list.
C4_StartIsAnAccess ==
    lastOp.op = "Start" =>
        /\ stores[lastOp.ret].last = now
        /\ list # <<>>
        /\ Head(list) = lastOp.ret

\* C5: after Manager.Destroy of a request that carries a cookie value Start
\* issued, the session Start bound to that value is no longer registered.
C5_DestroyRemovesIssued ==
    (lastOp.op = "ManagerDestroy" /\ lastOp.cookie \in issued) =>
        QueryUnescape(lastOp.cookie).val \notin DOMAIN sessions

\* C6: a Start whose cookie value does not decode is served as one without a
\* cookie: a new identifier is minted, a store is created under it and the
\* cookie is set, so no two such requests get the same store.
C6_MalformedIsFresh ==
    (lastOp.op = "Start" /\ lastOp.cookie # NoString
                         /\ ~QueryUnescape(lastOp.cookie).ok) =>
        /\ lastOp.created
        /\ lastOp.sid \in MintedSIDs(minted)
        /\ lastOp.setCookie = QueryEscape(lastOp.sid)

\* C9: Read(id) returns no error; the store it returns is bound to id and is
\* registered under id in the map and in the list; on a miss that store is a
\* new one, with no entries.
C9_ReadNeverFails ==
    lastOp.op = "Read" =>
        /\ lastOp.err = "nil"
        /\ stores[lastOp.ret].id = lastOp.sid
        /\ lastOp.sid \in DOMAIN sessions
        /\ sessions[lastOp.sid] = lastOp.ret
        /\ lastOp.ret \in Registered
        /\ lastOp.created =>
              /\ lastOp.ret = Len(stores)
              /\ stores[lastOp.ret].val = 0

\* a Read that missed, of an identifier whose earlier store was destroyed
C9_Witness ==
    /\ lastOp.op = "Read"
    /\ lastOp.created
    /\ \E h \in DOMAIN stores : h # lastOp.ret /\ stores[h].id = lastOp.sid

-----------------------------------------------------------------------------
(* Properties of the concurrent calls on the Provider *)

\* the steps that read or write the map or the list
AccessPCs ==
    {"read", "init_push", "init_map", "destroy", "destroy_delete",
     "destroy_remove", "update", "update_move", "gc_back", "gc_remove",
     "gc_delete"}

\* a goroutine there has made its first access and not yet its last
MidPCs ==
    {"init_push", "init_map", "destroy_delete", "destroy_remove",
     "update_move", "gc_remove", "gc_delete"}

\* C7: no call reads or writes the map or the list while another call is
\* between its first and its last access to them.
C7_RegistryCallsAtomic ==
    [][\A u \in Threads :
          (pc[u] \in AccessPCs /\ pc'[u] # pc[u] /\ pc'[u] # "fatal") =>
              \A t \in Threads \ {u} : pc[t] \notin MidPCs]_vars

\* C10: two Read calls with the same id that have returned, no Destroy of
\* that id having been called and no GC having removed it, returned the same
\* store.
C10_ReadSameStore ==
    \A t, u \in Threads :
        (/\ pc[t] = "done" /\ loc[t].op = "Read"
         /\ pc[u] = "done" /\ loc[u].op = "Read"
         /\ loc[t].sid = loc[u].sid
         /\ loc[t].sid \notin gone) =>
            loc[t].ret = loc[u].ret

-----------------------------------------------------------------------------
(* Properties of the concurrent calls on the Manager *)

StoresOf(sid) == {h \in DOMAIN stores : stores[h].id = sid}

\* C8: the Start calls that carry the same identifier bind it once: at
\* most one store is ever created for the identifier, and each of the calls
\* returns that store (for as long as no Destroy is called for the
\* identifier and GC does not remove its store).
C8_StartBindsOnce ==
    /\ \A sid \in SIDs \ gone : Cardinality(StoresOf(sid)) <= 1
    /\ \A t \in Procs :
          (/\ pc[t] = "start_unlock"
           /\ loc[t].cookie # NoString
           /\ loc[t].sid \notin gone) =>
              StoresOf(loc[t].sid) = {loc[t].ret}

\* A Start that carried a malformed cookie value returns the store that an
\* earlier Start carrying such a value created.
C8_Witness ==
    \E t \in Procs :
        /\ pc[t] = "start_unlock"
        /\ loc[t].cookie = <<"%">>
        /\ ~loc[t].created
        /\ loc[t].sid \notin gone
        /\ StoresOf(loc[t].sid) = {loc[t].ret}

-----------------------------------------------------------------------------
(* Properties of Destroy, of the store's release and of the issued cookie *)

\* C11: after Destroy(id) of a registered id, id is in neither the map nor
\* the list, and the next Read(id) returns a newly created store, different
\* from the destroyed one.
C11_DestroyThenFresh ==
    (lastOp.op = "Destroy" /\ lastOp.removed # {}) =>
        /\ lastOp.sid \notin DOMAIN sessions
        /\ \A h \in Registered : stores[h].id # lastOp.sid
        /\ LET r == ProviderRead(TheProvider, lastOp.sid, now)
           IN  r.created /\ r.ret \notin lastOp.removed

-----------------------------------------------------------------------------
(* The Manager for ever: the calls of Start and Destroy wait for m.mu as   *)
(* calls in progress, and the clock does not stop.  Instants are kept      *)
(* relative to a moving origin: once now has reached MaxTime a second that *)
(* passes moves every recorded instant one second into the past, down to   *)
(* the origin; the instants the program compares with now are then at      *)
(* least MaxTime seconds old, which is beyond every threshold it tests.    *)

Max0(x) == IF x > 0 THEN x ELSE 0

\* the calls of Start that have not yet reached the creation of their store
StartsInFlight ==
    Cardinality({t \in Procs : pc[t] \in {"start_lock", "start_cookie", "read",
                                          "init_push"}})

LiveClock ==
    /\ m_mu = NoThread
    /\ IF now < MaxTime
       THEN /\ now' = now + 1
            /\ stores' = stores
            /\ timerAt' = timerAt
       ELSE /\ now' = now
            /\ stores' = [h \in DOMAIN stores |->
                             [stores[h] EXCEPT !.last = Max0(@ - 1)]]
            /\ timerAt' = Max0(timerAt - 1)
    /\ UNCHANGED <<sessions, list, cookieLifeDuration, gcDuration, ctorVars, minted, issued,
                   m_mu, timers, lastOp, pc, loc, p_mu, gone>>

\* a goroutine calls Manager.Start and waits in m.mu.Lock()
BeginStart(t) ==
    /\ Idle(t)
    /\ Len(stores) + StartsInFlight < MaxStores
    /\ loc' = [loc EXCEPT ![t] = [Fresh EXCEPT !.op = "Start"]]
    /\ Goto(t, "start_lock")
    /\ UNCHANGED <<now, providerVars, managerVars, lastOp, p_mu, gone>>

\* Start: m.mu.Lock() returns
StartAcquire(t) ==
    /\ pc[t] = "start_lock"
    /\ m_mu = NoThread
    /\ m_mu' = t
    /\ Goto(t, "start_cookie")
    /\ UNCHANGED <<now, providerVars, gcDuration, ctorVars, minted, issued, timers, timerAt,
                   lastOp, loc, p_mu, gone>>

\* a goroutine calls Manager.Destroy for a request with a cookie and waits in
\* m.mu.Lock()
BeginManagerDestroy(t, cookieValue) ==
    /\ Idle(t)
    /\ cookieValue # NoString
    /\ loc' = [loc EXCEPT ![t] = [Fresh EXCEPT !.op = "ManagerDestroy",
                                               !.cookie = cookieValue,
                                               !.sid = cookieValue]]
    /\ Goto(t, "mdestroy_lock")
    /\ UNCHANGED <<now, providerVars, managerVars, lastOp, p_mu, gone>>

\* Destroy: m.mu.Lock() returns, up to the call of the Provider's Destroy
DestroyAcquire(t) ==
    /\ pc[t] = "mdestroy_lock"
    /\ m_mu = NoThread
    /\ m_mu' = t
    /\ gone' = gone \cup ({loc[t].sid} \cap SIDs)
    /\ Goto(t, "destroy")
    /\ UNCHANGED <<now, providerVars, gcDuration, ctorVars, minted, issued, timers, timerAt,
                   lastOp, loc, p_mu>>

\* the steps of a call that wait for nothing but the scheduler
Run(t) ==
    \/ \E c \in RequestCookies : StartCookie(t, c)
    \/ StartUnlock(t)
    \/ DestroyUnlock(t)
    \/ ManagerGCTimer(t)
    \/ ReadLookup(t)
    \/ InitPush(t)
    \/ InitMap(t)
    \/ DestroyLookup(t)
    \/ DestroyDelete(t)
    \/ DestroyRemove(t)
    \/ GCLock(t)
    \/ GCBack(t)
    \/ GCRemove(t)
    \/ GCDelete(t)

LiveNext ==
    \/ LiveClock
    \/ \E t \in Procs : BeginStart(t)
    \/ \E t \in Procs : StartAcquire(t)
    \/ \E t \in Procs : DestroyNoCookie(t)
    \/ \E t \in Procs, c \in RequestCookies : BeginManagerDestroy(t, c)
    \/ \E t \in Procs : DestroyAcquire(t)
    \/ ManagerGCLock(GCThread)
    \/ TimerFire
    \/ \E t \in Threads : Run(t)

\* The scheduler runs every goroutine that can run; a goroutine blocked in
\* Lock gets the mutex in the end although others take it again and again
\* (sync.Mutex hands the mutex to a waiter that has waited long); time
\* passes; a timer that is due fires.  Requests are not obliged to come.
LiveFairness ==
    /\ \A t \in Threads : WF_vars(Run(t))
    /\ \A t \in Procs : SF_vars(StartAcquire(t))
    /\ \A t \in Procs : SF_vars(DestroyAcquire(t))
    /\ SF_vars(ManagerGCLock(GCThread))
    /\ SF_vars(LiveClock)
    /\ WF_vars(TimerFire)

SpecLive == NewInit /\ [][LiveNext]_vars /\ LiveFairness

\* C12: once New has returned the Provider's GC is invoked again and again for
\* ever, and every invocation is followed by a pending timer for the next one,
\* whatever calls of Start and Destroy come in between.
C12_GCForever ==
    /\ []<>(pc[GCThread] = "gc")
    /\ (pc[GCThread] = "gc") ~> (timers > 0)

\* the Provider's GC invoked from a timer, while a Start waits for m.mu and a
\* session is registered
C12_Witness ==
    /\ pc[GCThread] = "gc"
    /\ lastOp.op = "TimerFire"
    /\ list # <<>>
    /\ \E t \in Procs : pc[t] = "start_lock"

-----------------------------------------------------------------------------
(* Register and New, one call at a time *)

RequestedNames == ProviderNames \cup {"file"}

CookieNames == {"", "sid"}

GivenDurations == {-1, 0, 1, 2 * Second}

sessionVars ==
    <<now, stores, sessions, list, cookieLifeDuration, gcDuration, minted, issued,
      concVars>>

\* Register(provider)
Register(provider) ==
    LET r == RegisterTable(providers, provider)
    IN  /\ providers' = r.tbl
        /\ lastReg' = IF provider = NilProvider THEN lastReg
                      ELSE MapPut(lastReg, Name(provider), provider)
        /\ lastOp' = [NoOp EXCEPT !.op = "Register", !.ret = provider.id,
                                  !.err = r.err]
        /\ UNCHANGED <<manager, redisUp, sessionVars>>

\* New(providerName, cookieName, gcDuration): a panic on newManager's error,
\* and go manager.GC() otherwise
New(providerName, cookieName, d) ==
    LET r == newManager(providers, providerName, cookieName, d)
    IN  /\ manager' = [m |-> r.manager, err |-> r.err, gc |-> r.err = "nil",
                       requested |-> providerName, up |-> redisUp]
        /\ lastOp' = [NoOp EXCEPT !.op = "New",
                                  !.err = IF r.err = "nil" THEN "nil" ELSE "panic"]
        /\ UNCHANGED <<providers, redisUp, lastReg, sessionVars>>

\* the remote backend goes away or comes back
Connection ==
    /\ redisUp' = ~redisUp
    /\ lastOp' = [NoOp EXCEPT !.op = "Connection"]
    /\ UNCHANGED <<providers, manager, lastReg, sessionVars>>

CtorNext ==
    \/ \E p \in ProviderObjs \cup {NilProvider} : Register(p)
    \/ \E n \in RequestedNames, c \in CookieNames, d \in GivenDurations : New(n, c, d)
    \/ Connection

SpecCtor == SeqInit /\ [][CtorNext]_vars

\* C13: a Manager asked for the remote backend while that backend does not
\* answer is made without failure and uses the local in-memory backend.
C13_RemoteFallsBack ==
    (/\ lastOp.op = "New"
     /\ manager.requested = "redis"
     /\ "redis" \in DOMAIN providers
     /\ "memory" \in DOMAIN providers
     /\ ~manager.up) =>
        /\ manager.err = "nil"
        /\ Name(manager.m.provider) = "memory"

C15_LastRegistrationWins ==
    /\ providers = lastReg
    /\ (lastOp.op = "Register" /\ lastOp.ret # NilProvider.id) => lastOp.err = "nil"

\* a name registered again, with another provider than the one a Manager
\* made before is bound to
C15_Witness ==
    /\ lastOp.op = "Register"
    /\ lastOp.err = "nil"
    /\ manager.err = "nil"
    /\ manager.requested \in DOMAIN providers
    /\ providers[manager.requested] # manager.m.provider
    /\ lastOp.ret = providers[manager.requested].id

-----------------------------------------------------------------------------
(* The issued cookie *)

\* the store made when sid was issued: the first one bound to sid (0: none)
IssuedStore(sid) ==
    LET H == {h \in DOMAIN stores : stores[h].id = sid}
    IN  IF H = {} THEN 0 ELSE CHOOSE h \in H : \A g \in H : h <= g

StoreIDs == {stores[h].id : h \in DOMAIN stores}

\* C16: a Start without identifier mints one no store is bound to, makes a
\* store under it and sets the cookie to the escaped identifier; a later Start
\* carrying that cookie value, the store not having been removed, returns
\* that store and makes no new one.
C16_IssuanceRoundTrip ==
    [][lastOp'.op = "Start" =>
          /\ lastOp'.cookie = NoString =>
                /\ lastOp'.created
                /\ lastOp'.sid \notin StoreIDs
                /\ lastOp'.ret = Len(stores) + 1
                /\ stores'[lastOp'.ret].id = lastOp'.sid
                /\ sessions'[lastOp'.sid] = lastOp'.ret
                /\ lastOp'.setCookie = QueryEscape(lastOp'.sid)
                /\ lastOp'.setCookie \in issued'
          /\ \A sid \in MintedSIDs(minted) :
                (/\ lastOp'.cookie = QueryEscape(sid)
                 /\ lastOp'.cookie \in issued
                 /\ IssuedStore(sid) \in Registered) =>
                    /\ lastOp'.ret = IssuedStore(sid)
                    /\ ~lastOp'.created
                    /\ stores' = stores]_vars

\* a Start that carried the issued cookie a second later and got the store of
\* the issuance, which had been written to
C16_Witness ==
    /\ lastOp.op = "Start"
    /\ lastOp.cookie \in issued
    /\ ~lastOp.created
    /\ lastOp.ret = IssuedStore(lastOp.sid)
    /\ stores[lastOp.ret].val = 1
    /\ stores[lastOp.ret].last < now

-----------------------------------------------------------------------------
(* The release of the stores that leave the registry *)

\* C17: Destroy and GC of the Provider call Destroy() exactly once on every
\* store they remove.
C17_RemovedStoresReleased ==
    lastOp.op \in {"Destroy", "GC"} =>
        \A h \in lastOp.removed :
            /\ h \notin Registered
            /\ stores[h].destroyCalls = 1

-----------------------------------------------------------------------------
(* The Manager's GC beside Start and Destroy *)

\* C18: Manager.GC beside any calls of Start and Destroy: p.mu is only taken
\* by the holder of m.mu, the goroutine that calls GC never holds m.mu
\* already, and every call of Start, Destroy and GC returns: no goroutine
\* stays in a call for ever.
C18_CallsReturn ==
    /\ [](\A t \in Threads : p_mu = t => m_mu = t)
    /\ [](pc[GCThread] = "mgc" => m_mu # GCThread)
    /\ \A t \in Threads : []<>(pc[t] = "idle")

\* GC called from the timer waits for m.mu while a Start holds m.mu and p.mu
\* and a Destroy waits as well
C18_Witness ==
    /\ pc[GCThread] = "mgc"
    /\ lastOp.op = "TimerFire"
    /\ \E t \in Procs : pc[t] = "init_map" /\ m_mu = t /\ p_mu = t
    /\ \E t \in Procs : pc[t] = "mdestroy_lock"

-----------------------------------------------------------------------------
(* Destroy of an identifier that is not registered *)

\* C19: Destroy(id) of an id without map entry returns nil, calls no store's
\* Destroy() and leaves the map and the list as they are; so does a second
\* Destroy(id) right after any Destroy(id).
C19_DestroyMissIsNoOp ==
    [][lastOp'.op = "Destroy" =>
          /\ lastOp'.err = "nil"
          /\ lastOp'.sid \notin DOMAIN sessions =>
                /\ sessions' = sessions
                /\ list' = list
                /\ stores' = stores
          /\ ProviderDestroy(TheProvider', lastOp'.sid) = TheProvider']_vars

\* a Destroy of an identifier whose store an earlier Destroy removed, while
\* another session is registered
C19_Witness ==
    /\ lastOp.op = "Destroy"
    /\ lastOp.removed = {}
    /\ list # <<>>
    /\ \E h \in DOMAIN stores :
          stores[h].id = lastOp.sid /\ stores[h].destroyCalls = 1

-----------------------------------------------------------------------------
(* The background GC of a Manager made with New *)

\* the GC invocations in progress: called and not yet returned
GCRunning == IF pc[GCThread] = "idle" THEN 0 ELSE 1

-----------------------------------------------------------------------------
(* The cookie life of the stores a Manager makes *)

\* C21: every store made through Start is constructed by NewStore with the
\* Provider's cookieLifeDuration equal to the Manager's gcDuration, the store
\* of a Start that runs before the first GC of New's goroutine included.
C21_StoreLifeIsGCDuration ==
    [][\A t \in Procs :
          (/\ pc[t] = "init_push"
           /\ pc'[t] = "init_map"
           /\ loc[t].op = "Start"
           /\ Len(stores') = Len(stores) + 1) =>
              cookieLifeDuration = gcDuration]_vars

=============================================================================
